---- MODULE Spec2Model ----
(***************************************************************************)
(* A model of the digital diary (src/src/diary.rs, src/src/main.rs).       *)
(*                                                                         *)
(* One process runs one subcommand against the database file.  The state   *)
(* is the database location (what is on disk there, the tables of the      *)
(* database, the rows of the `entries` table and its AUTOINCREMENT         *)
(* counter) and `out`, what the last subcommand computed and reported.     *)
(*                                                                         *)
(* Strings are sequences of one-character strings, so that sorting,        *)
(* joining, splitting, lower-casing and substring search are computed on   *)
(* characters as the code computes them.                                   *)
(***************************************************************************)
EXTENDS Integers, Sequences, FiniteSets, TLC

VARIABLES
    fs,        \* what is at the database location: "absent", "dir", "notdb", "db"
    tables,    \* the tables of the database at the location
    rows,      \* the rows of table `entries`, in rowid order
    seq,       \* sqlite_sequence of `entries`: the largest id ever assigned
    clock,     \* the local clock
    out        \* what the last subcommand did and reported

vars == <<fs, tables, rows, seq, clock, out>>

(***************************************************************************)
(* Bounds.                                                                 *)
(***************************************************************************)
MaxEntries == 2

(***************************************************************************)
(* Characters and strings.                                                 *)
(***************************************************************************)
\* The byte order of the characters used (ASCII): String's Ord compares bytes.
CharOrd(c) ==
    CASE c = ";" -> 59
      [] c = "A" -> 65
      [] c = "B" -> 66
      [] c = "a" -> 97
      [] c = "b" -> 98
      [] c = "c" -> 99
      [] c = "x" -> 120

\* char::to_lowercase on the characters used.
LowerChar(c) ==
    CASE c = "A" -> "a"
      [] c = "B" -> "b"
      [] OTHER -> c

\* str::to_lowercase
to_lowercase(s) == [i \in 1..Len(s) |-> LowerChar(s[i])]

\* str::contains(&str): the needle occurs as a contiguous substring.
contains(hay, needle) ==
    \E i \in 0..(Len(hay) - Len(needle)) :
        SubSeq(hay, i + 1, i + Len(needle)) = needle

\* Ord for String: lexicographic on bytes, a proper prefix is smaller.
RECURSIVE StrLess(_, _)
StrLess(a, b) ==
    IF b = <<>> THEN FALSE
    ELSE IF a = <<>> THEN TRUE
    ELSE IF CharOrd(Head(a)) # CharOrd(Head(b))
         THEN CharOrd(Head(a)) < CharOrd(Head(b))
         ELSE StrLess(Tail(a), Tail(b))

\* Insertion of x into a sorted list, after the elements not greater than it.
RECURSIVE InsertSorted(_, _)
InsertSorted(x, s) ==
    IF s = <<>> THEN <<x>>
    ELSE IF StrLess(x, Head(s)) THEN <<x>> \o s
    ELSE <<Head(s)>> \o InsertSorted(x, Tail(s))

\* Vec<String>::sort
RECURSIVE sort(_)
sort(s) ==
    IF s = <<>> THEN <<>>
    ELSE InsertSorted(s[Len(s)], sort(SubSeq(s, 1, Len(s) - 1)))

\* Vec::dedup: removes consecutive repeated elements.
RECURSIVE dedup(_)
dedup(s) ==
    IF Len(s) <= 1 THEN s
    ELSE IF s[1] = s[2] THEN dedup(Tail(s))
    ELSE <<s[1]>> \o dedup(Tail(s))

\* [String]::join(";")
RECURSIVE join(_)
join(list) ==
    IF list = <<>> THEN <<>>
    ELSE IF Len(list) = 1 THEN list[1]
    ELSE list[1] \o <<";">> \o join(Tail(list))

\* str::split(';'): the pieces between separators; the empty string has one
\* piece, the empty string.
RECURSIVE split(_)
split(s) ==
    IF \A i \in 1..Len(s) : s[i] # ";" THEN <<s>>
    ELSE LET p == CHOOSE i \in 1..Len(s) :
                      s[i] = ";" /\ \A j \in 1..(i - 1) : s[j] # ";"
         IN  <<SubSeq(s, 1, p - 1)>> \o split(SubSeq(s, p + 1, Len(s)))

(***************************************************************************)
(* Inputs.                                                                 *)
(***************************************************************************)
\* Titles typed at the prompt.
Titles == { <<"A", "b">>, <<"c">> }

\* Keyword lists as main hands them to add: lowercase, whitespace-free tokens.
KeywordLists ==
    { <<>>,
      << <<"a", "b">> >>,
      << <<"b">>, <<"a">>, <<"b">> >>,
      << <<"a", ";", "b">> >> }

Contents == { <<"x">> }

(***************************************************************************)
(* The store.                                                              *)
(***************************************************************************)
\* Sha256 over the concatenated updates: an injective function of the bytes.
Sha256(bytes) == <<"sha256", bytes>>

\* Diary::open returns: a file is at the location (SQLite reads nothing of it
\* yet); an absent location and a directory end the command here.
open == fs \in {"db", "notdb"}

\* A statement on table `entries` can run: the file is a database with the table.
HasEntries == fs = "db" /\ "entries" \in tables

Init ==
    /\ \/ fs = "absent" /\ tables = {}
       \/ fs = "dir" /\ tables = {}
       \/ fs = "notdb" /\ tables = {}
       \/ fs = "db" /\ tables \in { {}, {"other"} }
    /\ rows = <<>>
    /\ seq = 0
    /\ clock = 1
    /\ out = [op |-> "none"]

\* create with CREATE TABLE IF NOT EXISTS: an existing table is no error.
createIfNotExists ==
    IF fs = "dir"
    THEN /\ out' = [op |-> "create", result |-> "panic",
                    error |-> "couldn't open database connection"]
         /\ UNCHANGED <<fs, tables, rows, seq, clock>>
    ELSE IF fs = "notdb"
    THEN /\ out' = [op |-> "create", result |-> "panic",
                    error |-> "couldn't create database tables"]
         /\ UNCHANGED <<fs, tables, rows, seq, clock>>
    ELSE /\ fs' = "db"
         /\ tables' = tables \cup {"entries"}
         /\ out' = [op |-> "create", result |-> "ok"]
         /\ UNCHANGED <<rows, seq, clock>>

\* Diary::create
create ==
    IF fs = "dir"
    THEN /\ out' = [op |-> "create", result |-> "panic",
                    error |-> "couldn't open database connection"]
         /\ UNCHANGED <<fs, tables, rows, seq, clock>>
    ELSE IF fs = "notdb" \/ "entries" \in tables
    THEN /\ out' = [op |-> "create", result |-> "panic",
                    error |-> "couldn't create database tables"]
         /\ UNCHANGED <<fs, tables, rows, seq, clock>>
    ELSE /\ fs' = "db"
         /\ tables' = tables \cup {"entries"}
         /\ rows' = <<>>
         /\ seq' = 0
         /\ out' = [op |-> "create", result |-> "ok"]
         /\ UNCHANGED clock

\* The id AUTOINCREMENT gives the next row: one more than the largest id ever
\* held by the table.
RECURSIVE MaxId(_)
MaxId(rs) ==
    IF rs = <<>> THEN 0
    ELSE LET m == MaxId(Tail(rs))
         IN  IF Head(rs).id > m THEN Head(rs).id ELSE m

\* The id without AUTOINCREMENT's step: the largest id again.
NextIdStale == IF seq > MaxId(rows) THEN seq ELSE MaxId(rows)

NextId == (IF seq > MaxId(rows) THEN seq ELSE MaxId(rows)) + 1

\* Diary::add
\* Local::now() reads the clock, which has advanced by the next add.
add(keywords, title, content) ==
    IF ~open \/ ~HasEntries
    THEN /\ out' = [op |-> "add", result |-> "panic"]
         /\ UNCHANGED <<fs, tables, rows, seq, clock>>
    ELSE LET sorted == dedup(sort(keywords))
             keywords_str == join(sorted)
             now == clock
             hash == Sha256(keywords_str \o title \o content \o <<now>>)
             row == [id |-> NextId, hash |-> hash, date |-> now,
                     keywords |-> keywords_str, title |-> title,
                     content |-> content, hidden |-> 0]
         IN  /\ Len(rows) < MaxEntries
             /\ rows' = Append(rows, row)
             /\ seq' = NextId
             /\ clock' = clock + 1
             /\ out' = [op |-> "add", result |-> "ok", input |-> keywords,
                        keywords |-> sorted, title |-> title,
                        content |-> content]
             /\ UNCHANGED <<fs, tables>>

\* rusqlite's FromSql for bool: any non-zero integer is true.
BoolOf(n) == n # 0

\* rusqlite's ToSql for bool: true is 1, false is 0.
IntOf(b) == IF b THEN 1 ELSE 0

\* The closure of get_entries' query_map: one row to one Entry.
EntryOf(row) ==
    [id |-> row.id, hash |-> row.hash, date |-> row.date,
     keywords |-> split(row.keywords), title |-> row.title,
     content |-> row.content, hidden |-> BoolOf(row.hidden)]

\* Diary::get_entries: SELECT * FROM entries, in rowid order.
get_entries(rs) == [i \in 1..Len(rs) |-> EntryOf(rs[i])]

\* The filter without the toggle: hidden entries are never printed.
PrintedVisibleOnly(a, hidden) == ~a.hidden

\* The filter of print_entries: the entries that get printed.
Printed(a, hidden) == ~a.hidden \/ hidden

\* Diary::print_entries: the loop over the filtered iterator; each entry printed
\* adds one to the counter, which the last line reports.
RECURSIVE print_entries(_, _)
print_entries(entries, hidden) ==
    IF entries = <<>> THEN [printed |-> <<>>, counter |-> 0]
    ELSE LET rest == print_entries(Tail(entries), hidden)
         IN  IF Printed(Head(entries), hidden)
             THEN [printed |-> <<Head(entries)>> \o rest.printed,
                   counter |-> rest.counter + 1]
             ELSE rest

\* Diary::list_all
list_all(hidden) ==
    IF ~open \/ ~HasEntries
    THEN /\ out' = [op |-> "list", result |-> "panic"]
         /\ UNCHANGED <<fs, tables, rows, seq, clock>>
    ELSE LET entries == get_entries(rows)
             p == print_entries(entries, hidden)
         IN  /\ out' = [op |-> "list", result |-> "ok", hidden |-> hidden,
                        entries |-> entries, printed |-> p.printed,
                        counter |-> p.counter]
             /\ UNCHANGED <<fs, tables, rows, seq, clock>>

\* The inner loop with Vec::contains: some keyword equals s.
RECURSIVE ScanKeywordsExact(_, _)
ScanKeywordsExact(ks, s) ==
    IF ks = <<>> THEN FALSE
    ELSE IF Head(ks) = s THEN TRUE
    ELSE ScanKeywordsExact(Tail(ks), s)

\* The inner loop of search over an entry's keywords: some keyword contains s.
RECURSIVE ScanKeywords(_, _)
ScanKeywords(ks, s) ==
    IF ks = <<>> THEN FALSE
    ELSE IF contains(Head(ks), s) THEN TRUE
    ELSE ScanKeywords(Tail(ks), s)

\* The loop over the terms without its breaks: every match pushes the entry.
RECURSIVE ScanTermsNoBreak(_, _, _)
ScanTermsNoBreak(e, terms, found) ==
    IF terms = <<>> THEN found
    ELSE LET f1 == IF contains(to_lowercase(e.title), Head(terms))
                   THEN Append(found, e) ELSE found
             f2 == IF ScanKeywords(e.keywords, Head(terms))
                   THEN Append(f1, e) ELSE f1
         IN  ScanTermsNoBreak(e, Tail(terms), f2)

\* The loop of search over the terms, for one entry: the entry is pushed at the
\* first term that its title or one of its keywords contains, and the loop over
\* the terms is left.
RECURSIVE ScanTerms(_, _, _)
ScanTerms(e, terms, found) ==
    IF terms = <<>> THEN found
    ELSE IF contains(to_lowercase(e.title), Head(terms)) THEN Append(found, e)
    ELSE IF ScanKeywords(e.keywords, Head(terms)) THEN Append(found, e)
    ELSE ScanTerms(e, Tail(terms), found)

\* The outer loop of search over the entries.
RECURSIVE ScanEntries(_, _, _)
ScanEntries(entries, searchfor, found) ==
    IF entries = <<>> THEN found
    ELSE ScanEntries(Tail(entries), searchfor,
                     ScanTerms(Head(entries), searchfor, found))

\* Diary::search
search(searchfor, hidden) ==
    IF ~open \/ ~HasEntries
    THEN /\ out' = [op |-> "search", result |-> "panic"]
         /\ UNCHANGED <<fs, tables, rows, seq, clock>>
    ELSE LET entries == get_entries(rows)
             found == ScanEntries(entries, searchfor, <<>>)
             p == print_entries(found, hidden)
         IN  /\ out' = [op |-> "search", result |-> "ok", hidden |-> hidden,
                        searchfor |-> searchfor, found |-> found,
                        printed |-> p.printed, counter |-> p.counter]
             /\ UNCHANGED <<fs, tables, rows, seq, clock>>

\* The search subcommand of main: the terms are lower-cased, then searched.
main_search(args, hidden) ==
    search([i \in 1..Len(args) |-> to_lowercase(args[i])], hidden)

\* The arguments of the search subcommand.
SearchArgs ==
    { << <<"a">> >>,
      << <<"A", "b">> >>,
      << <<"B">> >>,
      << <<"x">> >>,
      << <<"c">>, <<"a">> >>,
      << <<"B">>, <<"a">> >>,
      << <<"a", ";", "b">> >> }

(***************************************************************************)
(* Integers of the command line.  A 64-bit value does not fit the checker's *)
(* integers, so a number is kept exactly, as its sign and the decimal      *)
(* digits of its magnitude without leading zeros.                          *)
(***************************************************************************)
\* char::to_digit(10): the digit's value, or -1 for a character that is none.
to_digit(c) ==
    CASE c = "0" -> 0 [] c = "1" -> 1 [] c = "2" -> 2 [] c = "3" -> 3
      [] c = "4" -> 4 [] c = "5" -> 5 [] c = "6" -> 6 [] c = "7" -> 7
      [] c = "8" -> 8 [] c = "9" -> 9 [] OTHER -> -1

RECURSIVE StripZeros(_)
StripZeros(ds) ==
    IF Len(ds) > 1 /\ Head(ds) = 0 THEN StripZeros(Tail(ds)) ELSE ds

\* a < b for magnitudes without leading zeros.
RECURSIVE DigitsLess(_, _)
DigitsLess(a, b) ==
    IF a = <<>> \/ b = <<>> THEN FALSE
    ELSE IF Head(a) # Head(b) THEN Head(a) < Head(b)
    ELSE DigitsLess(Tail(a), Tail(b))

MagLess(a, b) ==
    Len(a) < Len(b) \/ (Len(a) = Len(b) /\ DigitsLess(a, b))

\* u64::MAX = 18446744073709551615
U64Max == <<1,8,4,4,6,7,4,4,0,7,3,7,0,9,5,5,1,6,1,5>>
\* i64::MAX = 9223372036854775807
I64Max == <<9,2,2,3,3,7,2,0,3,6,8,5,4,7,7,5,8,0,7>>
\* -i64::MIN = 9223372036854775808
I64MinMag == <<9,2,2,3,3,7,2,0,3,6,8,5,4,7,7,5,8,0,8>>

Err == [ok |-> FALSE]

\* core::num's from_str_radix(src, 10) for an integer type: an optional sign
\* (a '-' only for a signed type), then one or more digits; a value
\* outside the type is an error.
from_str(src, signed, max, minmag) ==
    IF src = <<>> THEN Err
    ELSE IF src[1] \in {"+", "-"} /\ Len(src) = 1 THEN Err
    ELSE LET positive == ~(src[1] = "-" /\ signed)
             digits == IF src[1] = "+" \/ (src[1] = "-" /\ signed)
                       THEN Tail(src) ELSE src
         IN  IF \E i \in 1..Len(digits) : to_digit(digits[i]) = -1 THEN Err
             ELSE LET mag == StripZeros([i \in 1..Len(digits) |->
                                             to_digit(digits[i])])
                  IN  IF positive /\ MagLess(max, mag) THEN Err
                      ELSE IF ~positive /\ MagLess(minmag, mag) THEN Err
                      ELSE [ok |-> TRUE,
                            val |-> [neg |-> ~positive /\ mag # <<0>>,
                                     mag |-> mag]]

\* str::parse::<u64>
parse_u64(a) == from_str(a, FALSE, U64Max, <<0>>)

\* str::parse::<i64>
parse_i64(a) == from_str(a, TRUE, I64Max, I64MinMag)

\* Ord for i64.
I64Less(a, b) ==
    IF a.neg # b.neg THEN a.neg
    ELSE IF a.neg THEN MagLess(b.mag, a.mag)
    ELSE MagLess(a.mag, b.mag)

RECURSIVE ToDigits(_)
ToDigits(n) ==
    IF n < 10 THEN <<n>> ELSE ToDigits(n \div 10) \o <<n % 10>>

\* The i64 of a row's id.
I64Of(n) == [neg |-> FALSE, mag |-> ToDigits(n)]

RECURSIVE InsertSortedId(_, _)
InsertSortedId(x, s) ==
    IF s = <<>> THEN <<x>>
    ELSE IF I64Less(x, Head(s)) THEN <<x>> \o s
    ELSE <<Head(s)>> \o InsertSortedId(x, Tail(s))

\* Vec<i64>::sort
RECURSIVE sort_ids(_)
sort_ids(s) ==
    IF s = <<>> THEN <<>>
    ELSE InsertSortedId(s[Len(s)], sort_ids(SubSeq(s, 1, Len(s) - 1)))

\* The UPDATE counting only the rows whose flag it flips.
UpdateChangedOnly(rs, set, i) ==
    [rows |-> [j \in 1..Len(rs) |->
                   IF I64Of(rs[j].id) = i
                   THEN [rs[j] EXCEPT !.hidden = IntOf(set)] ELSE rs[j]],
     n |-> Cardinality({j \in 1..Len(rs) :
                            I64Of(rs[j].id) = i /\ rs[j].hidden # IntOf(set)})]

\* The UPDATE without its WHERE clause: every row is updated.
UpdateAll(rs, set, i) ==
    [rows |-> [j \in 1..Len(rs) |-> [rs[j] EXCEPT !.hidden = IntOf(set)]],
     n |-> Len(rs)]

\* UPDATE entries SET hidden = ?1 WHERE id = ?2: the rows after it, and the
\* number of rows the statement updated (sqlite3_changes: the rows the WHERE
\* clause selects, whatever value they held).
Update(rs, set, i) ==
    [rows |-> [j \in 1..Len(rs) |->
                   IF I64Of(rs[j].id) = i
                   THEN [rs[j] EXCEPT !.hidden = IntOf(set)] ELSE rs[j]],
     n |-> Cardinality({j \in 1..Len(rs) : I64Of(rs[j].id) = i})]

\* The loop of Diary::hide over the ids.
RECURSIVE HideLoop(_, _, _, _)
HideLoop(rs, ids, set, counter) ==
    IF ids = <<>> THEN [rows |-> rs, counter |-> counter]
    ELSE LET u == Update(rs, set, Head(ids))
         IN  HideLoop(u.rows, Tail(ids), set, counter + u.n)

\* Diary::hide: the rows after the loop and the count it reports.
hide(ids, set) == HideLoop(rows, ids, set, 0)

\* The hide (set = TRUE) and unhide (set = FALSE) subcommands of main: clap
\* runs the validator on every argument, the store is opened, the arguments
\* are parsed as i64 and unwrapped, sorted and deduplicated, and Diary::hide
\* runs its statements.
main_hide(args, set) ==
    IF \E i \in 1..Len(args) : ~parse_u64(args[i]).ok
    THEN /\ out' = [op |-> "hide", result |-> "invalid", args |-> args,
                    error |-> "argument only accepts positive numbers (u64)"]
         /\ UNCHANGED <<fs, tables, rows, seq, clock>>
    ELSE IF ~open
    THEN /\ out' = [op |-> "hide", result |-> "panic", args |-> args,
                    error |-> "open"]
         /\ UNCHANGED <<fs, tables, rows, seq, clock>>
    ELSE IF \E i \in 1..Len(args) : ~parse_i64(args[i]).ok
    THEN /\ out' = [op |-> "hide", result |-> "panic", args |-> args,
                    error |-> "unwrap"]
         /\ UNCHANGED <<fs, tables, rows, seq, clock>>
    ELSE IF ~HasEntries
    THEN /\ out' = [op |-> "hide", result |-> "panic", args |-> args,
                    error |-> "update"]
         /\ UNCHANGED <<fs, tables, rows, seq, clock>>
    ELSE LET ids == dedup(sort_ids([i \in 1..Len(args) |->
                                        parse_i64(args[i]).val]))
             h == hide(ids, set)
         IN  /\ rows' = h.rows
             /\ out' = [op |-> "hide", result |-> "ok", args |-> args,
                        set |-> set, ids |-> ids, counter |-> h.counter]
             /\ UNCHANGED <<fs, tables, seq, clock>>

\* The arguments of the hide and unhide subcommands.
HideArgs ==
    { << <<"1">> >>,
      << <<"2">>, <<"1">>, <<"2">> >>,
      << <<"+", "1">>, <<"0", "1">> >>,
      << <<"2">>, <<"7">> >>,
      << <<"0">> >>,
      << <<"9","2","2","3","3","7","2","0","3","6","8","5","4","7","7","5","8","0","7">> >>,
      << <<"9","2","2","3","3","7","2","0","3","6","8","5","4","7","7","5","8","0","8">> >>,
      << <<"1">>, <<"1","8","4","4","6","7","4","4","0","7","3","7","0","9","5","5","1","6","1","5">> >>,
      << <<"1","8","4","4","6","7","4","4","0","7","3","7","0","9","5","5","1","6","1","6">> >>,
      << <<"-", "1">> >>,
      << <<"1">>, <<"x">> >>,
      << <<>> >> }

(***************************************************************************)
(* The program: any sequence of subcommands against the location.          *)
(***************************************************************************)
\* The arguments the whole-program specification searches and hides with.
SomeSearchArgs == { << <<"a">> >>, << <<"x">>, <<"A", "b">> >> }
SomeHideArgs == { << <<"1">> >>, << <<"2">>, <<"1">>, <<"2">> >>, << <<"7">> >> }

Next ==
    \/ create
    \/ \E k \in KeywordLists, t \in Titles, c \in Contents : add(k, t, c)
    \/ \E h \in BOOLEAN : list_all(h)
    \/ \E a \in SomeSearchArgs, h \in BOOLEAN : main_search(a, h)
    \/ \E a \in SomeHideArgs, set \in BOOLEAN : main_hide(a, set)

Spec == Init /\ [][Next]_vars

(***************************************************************************)
(* Searching: stores built by create and add, searched with every list of  *)
(* SearchArgs.                                                             *)
(***************************************************************************)
NextSearch ==
    \/ create
    \/ \E k \in KeywordLists, t \in Titles, c \in Contents : add(k, t, c)
    \/ \E a \in SearchArgs, h \in BOOLEAN : main_search(a, h)

SpecSearch == Init /\ [][NextSearch]_vars

(***************************************************************************)
(* Hiding: stores of like entries, hidden and unhidden with every list of  *)
(* HideArgs.                                                               *)
(***************************************************************************)
NextHide ==
    \/ create
    \/ add(<< <<"a">> >>, <<"c">>, <<"x">>)
    \/ \E a \in HideArgs, set \in BOOLEAN : main_hide(a, set)

SpecHide == Init /\ [][NextHide]_vars
(***************************************************************************)
(* Properties.                                                             *)
(***************************************************************************)
SearchDone == out.op = "search" /\ out.result = "ok"
AddDone == out.op = "add" /\ out.result = "ok"
HideDone == out.op = "hide" /\ out.result = "ok"

\* e is one of the entries of list es.
InList(e, es) == \E i \in 1..Len(es) : es[i] = e

\* Some term is a substring of the lower-cased title of e.
TitleMatch(e, terms) ==
    \E i \in 1..Len(terms) : contains(to_lowercase(e.title), terms[i])

\* C1 as amended: after a search with a non-empty list of lowercase terms, a
\* stored entry is in the result if and only if some term is a substring of
\* its lower-cased title or a substring of one of its keywords, the keywords
\* being those list_all returns for it.
C1_SearchMatches ==
    SearchDone =>
        LET all == get_entries(rows)
        IN  \A p \in 1..Len(all) :
                InList(all[p], out.found) <=>
                    \/ TitleMatch(all[p], out.searchfor)
                    \/ \E i \in 1..Len(out.searchfor),
                          k \in 1..Len(all[p].keywords) :
                           contains(all[p].keywords[k], out.searchfor[i])

\* C1 as stated: a stored entry is in the result if and only if some term is
\* a substring of its lower-cased title or is equal to one of its keywords.
C1_Original ==
    SearchDone =>
        LET all == get_entries(rows)
        IN  \A p \in 1..Len(all) :
                InList(all[p], out.found) <=>
                    \/ TitleMatch(all[p], out.searchfor)
                    \/ \E i \in 1..Len(out.searchfor),
                          k \in 1..Len(all[p].keywords) :
                           all[p].keywords[k] = out.searchfor[i]

\* A search found an entry none of whose keywords is a term and whose title
\* holds no term: a term is a proper substring of a keyword.
C1_Witness ==
    /\ SearchDone
    /\ \E f \in 1..Len(out.found) :
           /\ ~TitleMatch(out.found[f], out.searchfor)
           /\ \A i \in 1..Len(out.searchfor),
                 k \in 1..Len(out.found[f].keywords) :
                  out.found[f].keywords[k] # out.searchfor[i]

\* C2: the result of a search holds stored entries only, each at most once,
\* in the order list_all returns them: the places of the result's entries in
\* the stored list increase strictly.
C2_SearchOnceInOrder ==
    SearchDone =>
        LET all == get_entries(rows)
            Place(e) == CHOOSE p \in 1..Len(all) : all[p] = e
        IN  /\ \A f \in 1..Len(out.found) : InList(out.found[f], all)
            /\ \A f \in 1..(Len(out.found) - 1) :
                   Place(out.found[f]) < Place(out.found[f + 1])

\* A search with two terms found two entries, one of which both terms match,
\* each by the title and by a keyword.
C2_Witness ==
    /\ SearchDone
    /\ Len(out.searchfor) = 2
    /\ Len(out.found) = 2
    /\ \E f \in 1..2 : \A t \in 1..2 :
           /\ contains(to_lowercase(out.found[f].title), out.searchfor[t])
           /\ \E k \in 1..Len(out.found[f].keywords) :
                  contains(out.found[f].keywords[k], out.searchfor[t])

\* l is the sorted, duplicate-free list of the elements of input.
IsSortedDedupOf(l, input) ==
    /\ \A i \in 1..(Len(l) - 1) : StrLess(l[i], l[i + 1])
    /\ {l[i] : i \in 1..Len(l)} = {input[i] : i \in 1..Len(input)}

\* C3: an add is followed by a list of exactly one entry more, the entries
\* listed before are listed unchanged, and the new entry is not hidden and has
\* the sorted, duplicate-free input as its keywords.
C3_AddThenList ==
    [][ (out'.op = "add" /\ out'.result = "ok") =>
            LET listed == get_entries(rows)
                after == get_entries(rows')
            IN  /\ Len(after) = Len(listed) + 1
                /\ SubSeq(after, 1, Len(listed)) = listed
                /\ ~after[Len(after)].hidden
                /\ IsSortedDedupOf(after[Len(after)].keywords, out'.input)
      ]_vars

\* C4: the ids of the stored entries are positive and increase strictly in
\* the order the entries were added, so no two are equal and none is reused.
C4_Ids ==
    \A i \in 1..Len(rows) :
        /\ rows[i].id > 0
        /\ \A j \in (i + 1)..Len(rows) : rows[i].id < rows[j].id

\* Two entries are stored and a hide has changed one of them.
C4_Witness ==
    /\ Len(rows) >= 2
    /\ HideDone
    /\ out.counter >= 1

\* Row j of rs has one of the given ids.
Given(rs, j, ids) == \E i \in 1..Len(ids) : ids[i] = I64Of(rs[j].id)

\* C5 as amended: after set_hidden every entry with a given id has the given
\* flag, every other entry is as it was, and the count reported is the number
\* of given ids that are in the store, whether or not the flag of their entry
\* had another value before.
C5_SetHidden ==
    [][ (out'.op = "hide" /\ out'.result = "ok") =>
            /\ Len(rows') = Len(rows)
            /\ \A j \in 1..Len(rows) :
                   IF Given(rows, j, out'.ids)
                   THEN get_entries(rows')[j].hidden = out'.set
                   ELSE rows'[j] = rows[j]
            /\ out'.counter =
                   Cardinality({i \in 1..Len(out'.ids) :
                       \E j \in 1..Len(rows) : out'.ids[i] = I64Of(rows[j].id)})
      ]_vars

\* C5 as stated: the count reported is the number of entries whose flag
\* set_hidden changed.
C5_Original ==
    [][ (out'.op = "hide" /\ out'.result = "ok") =>
            /\ Len(rows') = Len(rows)
            /\ \A j \in 1..Len(rows) :
                   IF Given(rows, j, out'.ids)
                   THEN get_entries(rows')[j].hidden = out'.set
                   ELSE rows'[j] = rows[j]
            /\ out'.counter =
                   Cardinality({j \in 1..Len(rows) :
                                    rows'[j].hidden # rows[j].hidden})
      ]_vars

\* A hide of two ids, one stored and one not, reported 1 and hid the entry.
C5_Witness ==
    /\ HideDone
    /\ out.set
    /\ Len(out.ids) = 2
    /\ out.counter = 1
    /\ \E j \in 1..Len(rows) :
           Given(rows, j, out.ids) /\ get_entries(rows)[j].hidden

\* C6: list and search print exactly the entries of their list that are not
\* hidden, or all of them when hidden entries are asked for, in the order of
\* the list, and report the number of entries printed.
C6_DisplayFilter ==
    (out.op \in {"list", "search"} /\ out.result = "ok") =>
        LET input == IF out.op = "list" THEN out.entries ELSE out.found
            Visible(e) == ~e.hidden \/ out.hidden
        IN  /\ out.printed = SelectSeq(input, Visible)
            /\ out.counter = Len(out.printed)
            /\ out.op = "list" => input = get_entries(rows)

\* A list without hidden entries of a store of one hidden and one visible
\* entry reported 1.
C6_Witness ==
    /\ out.op = "list" /\ out.result = "ok"
    /\ ~out.hidden
    /\ Len(out.entries) = 2
    /\ \E i, j \in 1..2 : out.entries[i].hidden /\ ~out.entries[j].hidden
    /\ out.counter = 1

\* C7: the keywords read back for the entry just added are the list add
\* wrote, element for element.
C7_RoundTrip ==
    AddDone => get_entries(rows)[Len(rows)].keywords = out.keywords

\* C8 as amended: create succeeds, leaving a database with an empty entries
\* table and the tables it had, when the location is absent or holds a
\* database without the entries table (an empty file is one); in every other
\* case it fails and changes nothing.
C8_Create ==
    [][ out'.op = "create" =>
            IF fs = "absent" \/ (fs = "db" /\ "entries" \notin tables)
            THEN /\ out'.result = "ok"
                 /\ fs' = "db"
                 /\ tables' = tables \cup {"entries"}
                 /\ rows' = <<>>
            ELSE /\ out'.result = "panic"
                 /\ UNCHANGED <<fs, tables, rows, seq>>
      ]_vars

\* C8 as stated: create fails and changes nothing whenever something is at
\* the location, and succeeds with an empty store when the location is absent.
C8_Original ==
    [][ out'.op = "create" =>
            IF fs = "absent"
            THEN /\ out'.result = "ok"
                 /\ fs' = "db"
                 /\ rows' = <<>>
            ELSE /\ out'.result = "panic"
                 /\ UNCHANGED <<fs, tables, rows, seq>>
      ]_vars

\* A create on a store that holds entries failed, and the entries are there.
C8_Witness ==
    /\ out.op = "create"
    /\ out.result = "panic"
    /\ Len(rows) >= 1

\* C9: no step removes a stored entry or changes its id, hash, date, keywords,
\* title or content; a hidden flag changes only in a hide or unhide, and only
\* for an entry whose id is given; list and search change nothing stored.
C9_Frame ==
    [][ /\ Len(rows') >= Len(rows)
        /\ \A j \in 1..Len(rows) :
               /\ rows'[j] = [rows[j] EXCEPT !.hidden = rows'[j].hidden]
               /\ get_entries(rows')[j] =
                      [get_entries(rows)[j] EXCEPT
                           !.hidden = get_entries(rows')[j].hidden]
               /\ rows'[j].hidden # rows[j].hidden =>
                      /\ out'.op = "hide"
                      /\ Given(rows, j, out'.ids)
        /\ out'.op \in {"list", "search"} =>
               UNCHANGED <<fs, tables, rows, seq>>
      ]_vars

\* A hide has left one of two stored entries hidden and the other visible.
C9_Witness ==
    /\ HideDone
    /\ Len(rows) = 2
    /\ get_entries(rows)[1].hidden
    /\ ~get_entries(rows)[2].hidden

\* C10: the hide and unhide subcommands never abort converting an argument
\* the validator accepted, and the ids they hand to set_hidden are positive,
\* sorted and duplicate-free.
C10_ValidatedIds ==
    out.op = "hide" =>
        /\ out.result = "panic" => out.error # "unwrap"
        /\ out.result = "ok" =>
               /\ \A i \in 1..Len(out.ids) :
                      ~out.ids[i].neg /\ out.ids[i].mag # <<0>>
               /\ \A i \in 1..(Len(out.ids) - 1) :
                      I64Less(out.ids[i], out.ids[i + 1])
====
